---- MODULE Spec2Model ----
(***************************************************************************)
(* whenami: the slot-computation engine of src/whenami/utils/calendar.py.  *)
(*                                                                         *)
(* Time is an integer number of ticks; where times of day matter a tick    *)
(* is one minute.  Busy periods are Python dicts                           *)
(* {'start', 'end', 'summary'}: mutable objects, so they live in a heap    *)
(* (object id -> record) and lists hold object ids; merge_busy_periods     *)
(* appends the caller's dicts to its result and assigns to them.           *)
(* The 'start' and 'end' of a dict are ISO-8601 texts, which               *)
(* merge_busy_periods orders as Python strings and organize_slots parses   *)
(* into instants; two calendars may write their texts with different UTC   *)
(* offsets, and then the two orders differ.                                *)
(* An event name is a sequence of names: <<>> is None, <<"A">> is "A" and  *)
(* <<"A", "B">> is "A / B".                                                *)
(***************************************************************************)
EXTENDS Integers, Sequences, FiniteSets, TLC

VARIABLES
    pc,           \* position in the run
    input,        \* the period dicts as the caller built them (never changed)
    heap,         \* the period dicts as they are now
    sources,      \* busy_periods_list: a list of lists of dicts (object ids)
    merged,       \* the list merge_busy_periods returned (object ids)
    mergedVal,    \* the records of that list when it was returned
    again,        \* the list returned by merge_busy_periods([merged, merged])
    windowStart,  \* start_date handed to organize_slots
    windowEnd,    \* end_date handed to organize_slots
    slots,        \* the TimeSlot list organize_slots returned
    weekday0,     \* the weekday of the day instant 0 falls on (Monday = 0)
    config,       \* the loaded configuration: the hour window of each profile
    args,         \* the command line flags
    filtered,     \* the TimeSlot list filter_time_hours returned
    display,      \* what display_slots computed: its lists and totals
    server,       \* the calendar service: what it answers for each calendar
    calendars_info, \* the calendars get_calendars_info got the info of
    cal,          \* the calendar the fetch loop of find_free_slots is at
    queries,      \* the calendars whose busy periods were asked for, in order
    output,       \* the warnings and messages printed
    entered,      \* the lines typed at the prompts of get_date_range
    prompts,      \* how many times get_date_range called input()
    range,        \* (start_date, end_date) as get_date_range returned them
    llm_env,      \* litellm, the 'llm' configuration and what the completion call does
    requests,     \* how many completion requests were sent
    llm_result,   \* what parse_with_llm returned
    argv          \* the argument list convert_llm_to_args returned

fetchVars == <<server, calendars_info, cal, queries, output>>

cliVars == <<entered, prompts, range, llm_env, requests, llm_result, argv>>

vars == <<pc, input, heap, sources, merged, mergedVal, again,
          windowStart, windowEnd, slots, weekday0, config, args, filtered, display,
          fetchVars, cliVars>>

\* ------------------------------------------------------------------ bounds
\* Period instants are 1 .. MaxTime; a window bound is 0 .. MaxTime + 1.
MaxTime == 4
\* Dicts in busy_periods_list, over its two calendars.
MaxPeriods == 2
\* Times of day drawn per calendar day in the runs of filter_time_hours: the
\* hours of a profile and the ends of a slot fall on a grid of GridPerDay points
\* a day (00:00, 06:00, 12:00, 18:00).
GridPerDay == 4
\* Calendar days a slot handed to filter_time_hours may touch.
MaxDays == 3

\* A tick is one minute, the resolution of the configured HH:MM times; a day
\* (timedelta(days=1)) has 24 * 60 of them and the last time of day is 23:59.
TicksPerDay == 24 * 60
Grain == TicksPerDay \div GridPerDay

WindowTimes == 0 .. (MaxTime + 1)

\* ------------------------------------------------------------------ timestamps
\* The service writes an instant as a text such as "2024-01-01T00:03:00Z" or
\* "2024-01-01T00:05:00+00:02": the reading of a clock, then the suffix of the
\* zone the clock is in. Python orders two such texts character by character:
\* by the clock reading first, and for equal readings by the suffix, where
\* "+hh:mm" comes before "Z". A text is the number that keeps this order:
\* twice its clock reading, plus the rank of its suffix.
Ahead == 0
Utc == 1
Suffixes == {Ahead, Utc}

\* the UTC offset of the zone written "+hh:mm", in ticks
ZoneAhead == 2
utcoffset(z) == IF z = Utc THEN 0 ELSE ZoneAhead

\* the text of instant t as a calendar of zone z writes it
isoformat(t, z) == 2 * (t + utcoffset(z)) + z

\* parse_datetime(dt_str, tz): the instant the text denotes, from its clock
\* reading (text \div 2) and the offset of its suffix (text % 2)
parse_datetime(text) == (text \div 2) - utcoffset(text % 2)

\* the instants a period starts and ends at: start < end, or start = end
Intervals(empty) ==
    {iv \in (1 .. MaxTime) \X (1 .. MaxTime) : iv[1] < iv[2] \/ (empty /\ iv[1] = iv[2])}

\* ------------------------------------------------------------------ values
None == <<>>

Max(a, b) == IF a >= b THEN a ELSE b
Min(a, b) == IF a <= b THEN a ELSE b

\* The dict number i of a busy period over the instants iv, as a calendar of
\* zone z writes it; its summary is absent, or a name of its own.
Period(iv, named, i, z) ==
    [start |-> isoformat(iv[1], z), end |-> isoformat(iv[2], z),
     summary |-> IF named THEN <<i>> ELSE None]

\* range(a, b) as a list
RECURSIVE Range(_, _)
Range(a, b) == IF a > b THEN <<>> ELSE <<a>> \o Range(a + 1, b)

\* The records of a list of dicts.
Deref(h, ids) == [i \in 1 .. Len(ids) |-> h[ids[i]]]

\* ------------------------------------------------------------------ merge_busy_periods
\* all_periods.extend(periods) for each list
RECURSIVE Extend(_)
Extend(lists) ==
    IF lists = <<>> THEN <<>> ELSE Head(lists) \o Extend(Tail(lists))

\* list.sort(key=start) is stable: p goes after every element whose key is <= its own
RECURSIVE InsertByStart(_, _, _)
InsertByStart(h, sorted, p) ==
    IF sorted = <<>> THEN <<p>>
    ELSE IF h[Head(sorted)].start <= h[p].start
         THEN <<Head(sorted)>> \o InsertByStart(h, Tail(sorted), p)
         ELSE <<p>> \o sorted

RECURSIVE SortByStart(_, _)
SortByStart(h, ps) ==
    IF ps = <<>> THEN <<>>
    ELSE InsertByStart(h, SortByStart(h, SubSeq(ps, 1, Len(ps) - 1)), ps[Len(ps)])

\* if not merged or merged[-1]['end'] < period['start']
StartsNewEntry_le(h, m, p) == m = <<>> \/ h[m[Len(m)]].end <= h[p].start
StartsNewEntry(h, m, p) == m = <<>> \/ h[m[Len(m)]].end < h[p].start

\* merged[-1]['end'] = max(merged[-1]['end'], period['end'])
MergedEnd_incoming(cur, inc) == inc
MergedEnd(cur, inc) == Max(cur, inc)

\* the summary of merged[-1] after absorbing period
CombineSummary_swapped(cur, inc) ==
    IF cur # None /\ inc # None THEN inc \o cur
    ELSE IF inc # None THEN inc
    ELSE cur
CombineSummary_replace(cur, inc) == IF inc # None THEN inc ELSE cur
CombineSummary(cur, inc) ==
    IF cur # None /\ inc # None THEN cur \o inc
    ELSE IF inc # None THEN inc
    ELSE cur

\* One pass of the loop body, on st = [heap, merged].
MergeStep(st, p) ==
    IF StartsNewEntry(st.heap, st.merged, p)
    THEN [heap |-> st.heap, merged |-> Append(st.merged, p)]
    ELSE LET last == st.merged[Len(st.merged)]
             h1 == [st.heap EXCEPT ![last].end = MergedEnd(@, st.heap[p].end)]
             h2 == [h1 EXCEPT ![last].summary = CombineSummary(@, h1[p].summary)]
         IN  [heap |-> h2, merged |-> st.merged]

RECURSIVE MergeScan(_, _)
MergeScan(st, ps) ==
    IF ps = <<>> THEN st ELSE MergeScan(MergeStep(st, Head(ps)), Tail(ps))

\* merge_busy_periods(busy_periods_list) on heap h: the heap and the list it leaves
AllPeriods(h, lists) == SortByStart(h, Extend(lists))

merge_busy_periods(h, lists) ==
    MergeScan([heap |-> h, merged |-> <<>>], AllPeriods(h, lists))

\* ------------------------------------------------------------------ organize_slots
TimeSlot(s, e, busy, name) ==
    [start |-> s, end |-> e, is_busy |-> busy, event_name |-> name]

\* if current_time < start_dt: a free slot goes before the busy one
FreeBefore_always(cur, start) == TRUE
FreeBefore(cur, start) == cur < start

\* current_time = end_dt
NextCursor(cur, end) == end

\* TimeSlot(start_dt, end_dt, is_busy=True, event_name=event_name)
BusySlot_free(start_dt, end_dt, event_name) == TimeSlot(start_dt, end_dt, FALSE, event_name)
BusySlot(start_dt, end_dt, event_name) == TimeSlot(start_dt, end_dt, TRUE, event_name)

\* One pass of the loop body, on st = [cur, out]: p is (start, end, event_name)
\* with the texts of the merged period.
OrganizeStep(st, p) ==
    LET start_dt == parse_datetime(p.start)
        end_dt == parse_datetime(p.end)
        free == IF FreeBefore(st.cur, start_dt)
                THEN <<TimeSlot(st.cur, start_dt, FALSE, None)>> ELSE <<>>
    IN  [cur |-> NextCursor(st.cur, end_dt),
         out |-> st.out \o free \o <<BusySlot(start_dt, end_dt, p.summary)>>]

RECURSIVE OrganizeScan(_, _)
OrganizeScan(st, ps) ==
    IF ps = <<>> THEN st ELSE OrganizeScan(OrganizeStep(st, Head(ps)), Tail(ps))

\* organize_slots(busy_times, start_date, end_date, tz)
organize_slots(busy, ws, we) ==
    LET st == OrganizeScan([cur |-> ws, out |-> <<>>], busy)
    IN  IF st.cur < we THEN Append(st.out, TimeSlot(st.cur, we, FALSE, None))
        ELSE st.out

\* ------------------------------------------------------------------ filter_time_hours
\* A datetime is a tick t: its date is t \div TicksPerDay, its time of day the rest.
DayOf(t) == t \div TicksPerDay

\* current.replace(hour=tod.hour, minute=tod.minute, second=0)
AtTime(t, tod) == DayOf(t) * TicksPerDay + tod

\* current.replace(hour=0, minute=0, second=0) + timedelta(days=1)
NextDay(t) == AtTime(t, 0) + TicksPerDay

\* date.weekday(): Monday = 0 .. Sunday = 6
WeekdayOf(wd0, t) == (wd0 + DayOf(t)) % 7

\* is_workday(date): date.weekday() < 5
is_workday(wd0, t) == WeekdayOf(wd0, t) < 5

\* get_work_hours(config) / get_personal_hours(config): (start, end, break start, break end)
get_work_hours(cfg) == cfg.work_hours
get_personal_hours(cfg) == cfg.personal_hours

\* the hours filter_time_hours uses: work hours when args.work_hours, else personal hours
SelectedHours(cfg, a) ==
    IF a.work_hours THEN get_work_hours(cfg) ELSE get_personal_hours(cfg)

\* mid_day_break {'start': None, 'end': None}: no time of day is configured
NoTime == -1

\* break_start_time and break_end_time
HasBreak(h) == h.break_start # NoTime /\ h.break_end # NoTime

\* slot_start = max(current, day_start); slot_end = min(slot.end, day_end)
ClipStart_day(current, day_start) == day_start
ClipStart(current, day_start) == Max(current, day_start)
ClipEnd_slot(slot_end, day_end) == slot_end
ClipEnd(slot_end, day_end) == Min(slot_end, day_end)

\* the pieces of one clipped span around the break [bs, be) of its day
BreakPieces_whole(slot, s, e, bs, be) ==
    <<TimeSlot(s, e, slot.is_busy, slot.event_name)>>
BreakPieces(slot, s, e, bs, be) ==
    (IF s < bs
     THEN <<TimeSlot(s, Min(e, bs), slot.is_busy, slot.event_name)>> ELSE <<>>)
    \o
    (IF e > be
     THEN <<TimeSlot(Max(s, be), e, slot.is_busy, slot.event_name)>> ELSE <<>>)

\* The body of the while loop for the day of `current`: the slots it appends.
DayPieces(slot, current, h, a, wd0) ==
    IF ~a.work_days \/ is_workday(wd0, current)
    THEN LET s == ClipStart(current, AtTime(current, h.start))
             e == ClipEnd(slot.end, AtTime(current, h.end))
         IN  IF s < e /\ HasBreak(h)
             THEN BreakPieces(slot, s, e, AtTime(current, h.break_start),
                              AtTime(current, h.break_end))
             ELSE IF s < e
                  THEN <<TimeSlot(s, e, slot.is_busy, slot.event_name)>>
                  ELSE <<>>
    ELSE <<>>

\* while current < slot.end: ...; current = next_day
RECURSIVE SlotPieces(_, _, _, _, _)
SlotPieces(slot, current, h, a, wd0) ==
    IF current < slot.end
    THEN DayPieces(slot, current, h, a, wd0)
         \o SlotPieces(slot, NextDay(current), h, a, wd0)
    ELSE <<>>

RECURSIVE FilterSlots(_, _, _, _)
FilterSlots(ss, h, a, wd0) ==
    IF ss = <<>> THEN <<>>
    ELSE SlotPieces(Head(ss), Head(ss).start, h, a, wd0)
         \o FilterSlots(Tail(ss), h, a, wd0)

\* filter_time_hours(slots, config, args)
filter_time_hours_always(ss, cfg, a, wd0) == FilterSlots(ss, SelectedHours(cfg, a), a, wd0)
filter_time_hours(ss, cfg, a, wd0) ==
    IF a.all_hours THEN ss
    ELSE FilterSlots(ss, SelectedHours(cfg, a), a, wd0)

\* ------------------------------------------------------------------ display_slots
\* A timedelta is a whole number of minutes and the microseconds beyond them,
\* normalised as Python normalises it (0 <= us < one minute); a datetime inside
\* get_adjusted_duration is a tick and the microseconds past it.
MicrosPerMinute == 60 * 1000000

timedelta(minutes) == [min |-> minutes, us |-> 0]

\* a datetime on a whole minute
At(t) == [min |-> t, us |-> 0]

\* datetime.combine(current.date(), datetime.max.time()): 23:59:59.999999
DayMax(t) == [min |-> AtTime(t, TicksPerDay - 1), us |-> MicrosPerMinute - 1]

\* a < b, on datetimes and on timedeltas
Before(a, b) == a.min < b.min \/ (a.min = b.min /\ a.us < b.us)
Earliest(a, b) == IF Before(b, a) THEN b ELSE a
Latest(a, b) == IF Before(a, b) THEN b ELSE a

\* a - b of two datetimes, a + b of two timedeltas
Minus(a, b) ==
    [min |-> (a.min - b.min) + ((a.us - b.us) \div MicrosPerMinute),
     us |-> (a.us - b.us) % MicrosPerMinute]
Plus(a, b) ==
    [min |-> (a.min + b.min) + ((a.us + b.us) \div MicrosPerMinute),
     us |-> (a.us + b.us) % MicrosPerMinute]

\* TimeSlot.duration(): end - start
duration(slot) == Minus(At(slot.end), At(slot.start))

\* min(slot.end, <the last instant of the day of current>)
DayEnd(slot, current) == Earliest(At(slot.end), DayMax(current))

\* the part of [current, day_end) outside the break [break_start, break_end)
OutsideBreak_none(current, day_end, break_start, break_end) == Minus(day_end, current)
OutsideBreak(current, day_end, break_start, break_end) ==
    IF Before(current, break_end) /\ Before(break_start, day_end)
    THEN Plus(IF Before(current, break_start)
              THEN Minus(Earliest(break_start, day_end), current)
              ELSE timedelta(0),
              IF Before(break_end, day_end)
              THEN Minus(day_end, Latest(break_end, current))
              ELSE timedelta(0))
    ELSE Minus(day_end, current)

\* The body of the while loop for the day of `current`: what it adds to duration.
DayDuration(slot, current, bs, be) ==
    LET day_end == DayEnd(slot, current)
    IN  IF Before(At(current), day_end)
        THEN OutsideBreak(At(current), day_end,
                          At(AtTime(current, bs)), At(AtTime(current, be)))
        ELSE timedelta(0)

\* while current.date() <= slot.end.date(): ...; current = <midnight of the next day>
RECURSIVE AdjustedFrom(_, _, _, _)
AdjustedFrom(slot, current, bs, be) ==
    IF DayOf(current) <= DayOf(slot.end)
    THEN Plus(DayDuration(slot, current, bs, be),
              AdjustedFrom(slot, NextDay(current), bs, be))
    ELSE timedelta(0)

\* get_adjusted_duration(slot, break_start_time, break_end_time)
get_adjusted_duration(slot, bs, be) ==
    IF ~(bs # NoTime /\ be # NoTime) THEN duration(slot)
    ELSE AdjustedFrom(slot, slot.start, bs, be)

\* config.get('minimum_slot_duration', 30)
DefaultMinimum == 30
minimum_slot_duration(cfg) == cfg.minimum_slot_duration

\* display_slots has not run
NotDisplayed ==
    [message |-> "", free_slots |-> <<>>, busy_slots |-> <<>>,
     total_free |-> timedelta(0), total_busy |-> timedelta(0), durations |-> <<>>]

\* a free slot passes the minimum: duration >= timedelta(minutes=min_duration_minutes)
PassesMinimum(d, m) == ~Before(d, timedelta(m))

\* One iteration of `for slot in slots` (durations records the value of `duration`).
DisplayStep(acc, slot, bs, be, m, a) ==
    LET d == get_adjusted_duration(slot, bs, be)
        seen == [acc EXCEPT !.durations = Append(@, d)]
    IN  IF slot.is_busy
        THEN [seen EXCEPT !.total_busy = Plus(@, d),
                          !.busy_slots = IF a.show_busy THEN Append(@, slot) ELSE @]
        ELSE IF PassesMinimum(d, m)
             THEN [seen EXCEPT !.total_free = Plus(@, d),
                               !.free_slots = IF a.show_free THEN Append(@, slot) ELSE @]
             ELSE seen

RECURSIVE DisplayLoop(_, _, _, _, _, _)
DisplayLoop(acc, ss, bs, be, m, a) ==
    IF ss = <<>> THEN acc
    ELSE DisplayLoop(DisplayStep(acc, Head(ss), bs, be, m, a), Tail(ss), bs, be, m, a)

\* A display zone is the list of its one UTC offset, in minutes, relative to the
\* zone the slots are in; target_tz=None is the empty list.
\* slot.start.astimezone(target_timezone), slot.end.astimezone(target_timezone):
\* the same instants, read on the clock of the target zone
astimezone(slot, tz) ==
    [slot EXCEPT !.start = @ + tz[1], !.end = @ + tz[1]]

\* if target_tz: slots = [TimeSlot(start=..., end=..., ...) for slot in slots]
InZone(ss, tz) ==
    IF tz # <<>> THEN [i \in 1 .. Len(ss) |-> astimezone(ss[i], tz)] ELSE ss

\* display_slots(slots, target_tz, split, min_duration_minutes, args): the
\* break is the one of get_work_hours(load_config()), whatever profile filtered.
display_slots(ss, tz, m, a, cfg) ==
    IF ss = <<>> THEN [NotDisplayed EXCEPT !.message = "No slots to display"]
    ELSE LET h == get_work_hours(cfg)
         IN  DisplayLoop([NotDisplayed EXCEPT !.message = "WHENAMI free/busy?"],
                         InZone(ss, tz), h.break_start, h.break_end, m, a)

\* ------------------------------------------------------------------ the run
\* a profile that is not read: the whole day and no break
WholeDay ==
    [start |-> 0, end |-> TicksPerDay - 1, break_start |-> NoTime, break_end |-> NoTime]

\* main.py: show_free = not args.busy, show_busy = not args.free
NoArgs ==
    [work_hours |-> FALSE, work_days |-> FALSE, all_hours |-> FALSE,
     show_free |-> TRUE, show_busy |-> TRUE, debug |-> FALSE, event_name |-> FALSE,
     convert_tz |-> <<>>,
     today |-> FALSE, tomorrow |-> FALSE, next_week |-> FALSE, next_two_weeks |-> FALSE,
     date |-> <<>>, date_range |-> <<>>]

\* the two calendars of calendar_ids
Calendars == {1, 2}

\* runs that start from a given busy_periods_list or slot list ask no calendar
NotFetching ==
    /\ server = <<>>
    /\ calendars_info = {}
    /\ cal = 0
    /\ queries = <<>>
    /\ output = <<>>

\* runs that start after the command line was read: nothing was typed at a
\* prompt, no date range is kept and no text query was given
NoDates ==
    /\ entered = <<>>
    /\ prompts = 0
    /\ range = <<>>
NoQuery ==
    /\ llm_env = <<>>
    /\ requests = 0
    /\ llm_result = <<>>
    /\ argv = <<>>

Init ==
    /\ pc = "start"
    /\ \E n \in 0 .. MaxPeriods, k \in 0 .. MaxPeriods, zone \in [1 .. 2 -> Suffixes] :
         /\ k <= n
         /\ sources = <<Range(1, k), Range(k + 1, n)>>
         /\ \E iv \in [1 .. n -> Intervals(FALSE)], named \in [1 .. n -> BOOLEAN] :
              input = [i \in 1 .. n |->
                         Period(iv[i], named[i], i, zone[IF i <= k THEN 1 ELSE 2])]
    /\ heap = input
    /\ merged = <<>>
    /\ mergedVal = <<>>
    /\ again = <<>>
    /\ windowStart = 0
    /\ windowEnd = 0
    /\ slots = <<>>
    /\ weekday0 = 0
    /\ config = [work_hours |-> WholeDay, personal_hours |-> WholeDay,
                 minimum_slot_duration |-> DefaultMinimum]
    /\ args = NoArgs
    /\ filtered = <<>>
    /\ display = NotDisplayed
    /\ NotFetching
    /\ NoDates
    /\ NoQuery

\* merged_busy_periods = merge_busy_periods(busy_periods_list)
Merge ==
    /\ pc = "start"
    /\ LET r == merge_busy_periods(heap, sources)
       IN  /\ heap' = r.heap
           /\ merged' = r.merged
           /\ mergedVal' = Deref(r.heap, r.merged)
    /\ pc' = "merged"
    /\ UNCHANGED <<input, sources, again, windowStart, windowEnd, slots,
                   weekday0, config, args, filtered, display,
                   fetchVars, cliVars>>

\* merge_busy_periods([merged, merged]): the returned list merged with itself
Remerge ==
    /\ pc = "merged"
    /\ LET r == merge_busy_periods(heap, <<merged, merged>>)
       IN  /\ heap' = r.heap
           /\ again' = r.merged
    /\ pc' = "remerged"
    /\ UNCHANGED <<input, sources, merged, mergedVal, windowStart, windowEnd, slots,
                   weekday0, config, args, filtered, display,
                   fetchVars, cliVars>>

\* merge_busy_periods(busy_periods_list) called a second time on the same lists
MergeSame ==
    /\ pc = "merged"
    /\ LET r == merge_busy_periods(heap, sources)
       IN  /\ heap' = r.heap
           /\ again' = r.merged
    /\ pc' = "merged_again"
    /\ UNCHANGED <<input, sources, merged, mergedVal, windowStart, windowEnd, slots,
                   weekday0, config, args, filtered, display,
                   fetchVars, cliVars>>

\* all_slots = organize_slots([(p['start'], p['end'], p.get('summary')) ...],
\*                            start_date, end_date, tz)
Organize ==
    /\ pc = "merged"
    /\ \E ws \in WindowTimes, we \in WindowTimes :
         /\ ws < we
         /\ windowStart' = ws
         /\ windowEnd' = we
         /\ slots' = organize_slots(Deref(heap, merged), ws, we)
    /\ pc' = "organized"
    /\ UNCHANGED <<input, heap, sources, merged, mergedVal, again,
                   weekday0, config, args, filtered, display,
                   fetchVars, cliVars>>

Next == Merge \/ Remerge \/ MergeSame \/ Organize

Spec == Init /\ [][Next]_vars

\* ---- filter_time_hours on one slot, under every valid hour window
TimesOfDay == {g * Grain : g \in 0 .. (GridPerDay - 1)}

\* dayStart < dayEnd, and dayStart <= breakStart < breakEnd <= dayEnd when a break is set
HourWindows ==
    {[start |-> ds, end |-> de, break_start |-> NoTime, break_end |-> NoTime] :
        ds \in TimesOfDay, de \in TimesOfDay} \cup
    [start : TimesOfDay, end : TimesOfDay,
     break_start : TimesOfDay, break_end : TimesOfDay]

ValidWindow(h) ==
    /\ h.start < h.end
    /\ HasBreak(h) =>
         /\ h.start <= h.break_start
         /\ h.break_start < h.break_end
         /\ h.break_end <= h.end

SlotTimes == {g * Grain : g \in 0 .. (MaxDays * GridPerDay)}

InitFilter ==
    /\ pc = "organized"
    /\ input = <<>>
    /\ heap = <<>>
    /\ sources = <<>>
    /\ merged = <<>>
    /\ mergedVal = <<>>
    /\ again = <<>>
    /\ windowStart = 0
    /\ windowEnd = MaxDays * TicksPerDay
    /\ \E s \in SlotTimes, e \in SlotTimes, busy \in BOOLEAN :
         /\ s < e
         /\ slots = <<TimeSlot(s, e, busy, IF busy THEN <<1>> ELSE None)>>
    /\ weekday0 \in 0 .. 6
    /\ \E wh \in BOOLEAN, wd \in BOOLEAN, ah \in BOOLEAN :
         args = [NoArgs EXCEPT !.work_hours = wh, !.work_days = wd, !.all_hours = ah]
    /\ \E h \in {w \in HourWindows : ValidWindow(w)} :
         config = [work_hours |-> IF args.work_hours THEN h ELSE WholeDay,
                   personal_hours |-> IF args.work_hours THEN WholeDay ELSE h,
                   minimum_slot_duration |-> DefaultMinimum]
    /\ filtered = <<>>
    /\ display = NotDisplayed
    /\ NotFetching
    /\ NoDates
    /\ NoQuery

\* all_slots = filter_time_hours(all_slots, config, args)
Filter ==
    /\ pc = "organized"
    /\ filtered' = filter_time_hours(slots, config, args, weekday0)
    /\ pc' = "filtered"
    /\ UNCHANGED <<input, heap, sources, merged, mergedVal, again,
                   windowStart, windowEnd, slots, weekday0, config, args, display,
                   fetchVars, cliVars>>

\* display_slots(all_slots, target_tz, split, min_duration, args)
Display ==
    /\ pc = "filtered"
    /\ display' = display_slots(filtered, args.convert_tz, minimum_slot_duration(config), args, config)
    /\ pc' = "displayed"
    /\ UNCHANGED <<input, heap, sources, merged, mergedVal, again,
                   windowStart, windowEnd, slots, weekday0, config, args, filtered,
                   fetchVars, cliVars>>

NextFilter == Filter \/ Display

SpecFilter == InitFilter /\ [][NextFilter]_vars

\* ---- filter and display of one slot of a day, to five minutes, under the
\* ---- configuration of the specification's scenarios
\* datetime.strptime(s, '%H:%M').time()
HHMM(h, m) == h * 60 + m

\* work hours 09:00-17:00 with the break 12:00-13:00
ScenarioHours ==
    [start |-> HHMM(9, 0), end |-> HHMM(17, 0),
     break_start |-> HHMM(12, 0), break_end |-> HHMM(13, 0)]

\* get_personal_hours without a 'personal_hours' key: 08:00-22:00, no break
DefaultPersonalHours ==
    [start |-> HHMM(8, 0), end |-> HHMM(22, 0),
     break_start |-> NoTime, break_end |-> NoTime]

ScenarioTimes == {t \in HHMM(11, 0) .. HHMM(14, 0) : t % 5 = 0}

\* --free shows only free slots, --busy only busy ones, neither flag shows both
ShowFlags == {<<TRUE, TRUE>>, <<TRUE, FALSE>>, <<FALSE, TRUE>>}

\* --convert-tz: absent, the zone of the slots itself, a zone three hours ahead
\* of it and a zone five hours behind it
DisplayZones == {<<>>, <<0>>, <<HHMM(3, 0)>>, <<0 - HHMM(5, 0)>>}

InitScenario ==
    /\ pc = "organized"
    /\ input = <<>>
    /\ heap = <<>>
    /\ sources = <<>>
    /\ merged = <<>>
    /\ mergedVal = <<>>
    /\ again = <<>>
    /\ windowStart = 0
    /\ windowEnd = TicksPerDay
    /\ \E s \in ScenarioTimes, e \in ScenarioTimes, busy \in BOOLEAN :
         /\ s < e
         /\ slots = <<TimeSlot(s, e, busy, IF busy THEN <<1>> ELSE None)>>
    /\ weekday0 = 0
    /\ \E wh \in BOOLEAN, ah \in BOOLEAN, show \in ShowFlags, tz \in DisplayZones :
         args = [NoArgs EXCEPT !.work_hours = wh, !.all_hours = ah,
                                !.show_free = show[1], !.show_busy = show[2],
                                !.convert_tz = tz]
    /\ config = [work_hours |-> ScenarioHours, personal_hours |-> DefaultPersonalHours,
                 minimum_slot_duration |-> DefaultMinimum]
    /\ filtered = <<>>
    /\ display = NotDisplayed
    /\ NotFetching
    /\ NoDates
    /\ NoQuery

SpecScenario == InitScenario /\ [][NextFilter]_vars

\* ---- load_config, then filter and display of one slot under what it returned
\* no configuration has been loaded
NotLoaded == <<>>

\* a slot over the first two days of the grid
InitConfig ==
    /\ pc = "config"
    /\ input = <<>>
    /\ heap = <<>>
    /\ sources = <<>>
    /\ merged = <<>>
    /\ mergedVal = <<>>
    /\ again = <<>>
    /\ windowStart = 0
    /\ windowEnd = 2 * TicksPerDay
    /\ \E s \in SlotTimes, e \in SlotTimes, busy \in BOOLEAN :
         /\ s < e
         /\ e <= windowEnd
         /\ slots = <<TimeSlot(s, e, busy, IF busy THEN <<1>> ELSE None)>>
    /\ weekday0 = 0
    /\ \E wh \in BOOLEAN, ah \in BOOLEAN :
         args = [NoArgs EXCEPT !.work_hours = wh, !.all_hours = ah]
    /\ config = NotLoaded
    /\ filtered = <<>>
    /\ display = NotDisplayed
    /\ NotFetching
    /\ NoDates
    /\ NoQuery

\* config = load_config(): json.load of the file, returned as it is read. The
\* file holds any four times of day for the profile the run selects.
LoadConfig ==
    /\ pc = "config"
    /\ \E h \in HourWindows :
         config' = [work_hours |-> IF args.work_hours THEN h ELSE WholeDay,
                    personal_hours |-> IF args.work_hours THEN WholeDay ELSE h,
                    minimum_slot_duration |-> DefaultMinimum]
    /\ pc' = "organized"
    /\ UNCHANGED <<input, heap, sources, merged, mergedVal, again, windowStart,
                   windowEnd, slots, weekday0, args, filtered, display, fetchVars, cliVars>>

NextConfig == LoadConfig \/ Filter \/ Display

SpecConfig == InitConfig /\ [][NextConfig]_vars

\* ---- find_free_slots: from the calendar service to display_slots
\* the service lists the events of a calendar by start time (orderBy='startTime')
ByStartTime(h, a, b) ==
    \A i \in a .. (b - 1) : parse_datetime(h[i].start) <= parse_datetime(h[i + 1].start)

Message(text, c) == [text |-> text, cal |-> c]

\* The answers of the two calendars. The dict built from an event carries a
\* summary ('Untitled Event' when the event has none) and may start and end at
\* the same instant; the one built from a free/busy interval has summary None.
\* The free/busy query names the zone it wants the texts in ("timeZone":
\* start_date.tzname()), the events query names none and each calendar answers
\* in its own.
InitPipeline ==
    /\ pc = "info"
    /\ \E dbg \in BOOLEAN, named \in BOOLEAN, ah \in BOOLEAN :
         args = [NoArgs EXCEPT !.debug = dbg, !.event_name = named, !.all_hours = ah]
    /\ \E n \in 0 .. MaxPeriods, k \in 0 .. MaxPeriods,
          ok \in [Calendars -> [info : BOOLEAN, fetch : BOOLEAN]] :
         /\ k <= n
         /\ ~ok[1].fetch => k = 0
         /\ ~ok[2].fetch => k = n
         /\ \E iv \in [1 .. n -> Intervals(args.event_name)],
                zone \in IF args.event_name THEN [Calendars -> Suffixes]
                         ELSE {[c \in Calendars |-> Utc]} :
              /\ input = [i \in 1 .. n |->
                            Period(iv[i], args.event_name, i, zone[IF i <= k THEN 1 ELSE 2])]
              /\ ByStartTime(input, 1, k)
              /\ ByStartTime(input, k + 1, n)
         /\ server = [c \in Calendars |->
                        [info |-> ok[c].info, fetch |-> ok[c].fetch,
                         busy |-> IF c = 1 THEN Range(1, k) ELSE Range(k + 1, n)]]
    /\ heap = input
    /\ sources = <<>>
    /\ merged = <<>>
    /\ mergedVal = <<>>
    /\ again = <<>>
    /\ windowStart = 0
    /\ windowEnd = MaxTime + 1
    /\ slots = <<>>
    /\ weekday0 = 0
    /\ config = [work_hours |-> WholeDay, personal_hours |-> WholeDay,
                 minimum_slot_duration |-> DefaultMinimum]
    /\ filtered = <<>>
    /\ display = NotDisplayed
    /\ calendars_info = {}
    /\ cal = 0
    /\ queries = <<>>
    /\ output = <<>>
    /\ NoDates
    /\ NoQuery

\* get_calendars_info: the warning it prints for calendar c, if any
InfoWarning(c) ==
    IF server[c].info THEN <<>>
    ELSE <<Message("[WARNING] Could not get info for calendar", c)>>

\* calendars_info = get_calendars_info(service, calendar_ids);
\* if not calendars_info: print("[ERROR] No valid calendars found!"); return
GetCalendarsInfo ==
    /\ pc = "info"
    /\ calendars_info' = {c \in Calendars : server[c].info}
    /\ IF calendars_info' = {}
       THEN /\ output' = InfoWarning(1) \o InfoWarning(2)
                             \o <<Message("[ERROR] No valid calendars found!", 0)>>
            /\ pc' = "done"
            /\ cal' = cal
       ELSE /\ output' = InfoWarning(1) \o InfoWarning(2)
            /\ pc' = "fetch"
            /\ cal' = 1
    /\ UNCHANGED <<input, heap, sources, merged, mergedVal, again, windowStart,
                   windowEnd, slots, weekday0, config, args, filtered, display,
                   server, queries, cliVars>>

\* the debug print of a non-empty answer reads calendars_info[cal_id]['name']
\* and raises KeyError, inside the try, when the info of the calendar is missing
DebugPrintRaises(c) == args.debug /\ c \notin calendars_info

\* The try block of one calendar: the list it appends to busy_periods_list
\* (cal_busy, when it is not empty) and whether the except clause printed.
FetchCalendar(c) ==
    IF ~server[c].fetch THEN [cal_busy |-> <<>>, raised |-> TRUE]
    ELSE IF server[c].busy # <<>> /\ DebugPrintRaises(c)
         THEN [cal_busy |-> <<>>, raised |-> TRUE]
         ELSE [cal_busy |-> server[c].busy, raised |-> FALSE]

FetchWarning(c) ==
    IF args.event_name
    THEN Message("[WARNING] Failed to fetch events for calendar", c)
    ELSE Message("[WARNING] Failed to fetch calendar", c)

\* `for cal_id in calendar_ids`: whether the loop has a calendar c to go on with
MoreCalendars_never(c) == FALSE
MoreCalendars(c) == c \in Calendars

\* one iteration of `for cal_id in calendar_ids`
Fetch ==
    /\ pc = "fetch"
    /\ queries' = Append(queries, cal)
    /\ LET r == FetchCalendar(cal)
       IN  /\ sources' = IF r.cal_busy # <<>> THEN Append(sources, r.cal_busy) ELSE sources
           /\ output' = IF r.raised THEN Append(output, FetchWarning(cal)) ELSE output
    /\ cal' = cal + 1
    /\ pc' = IF MoreCalendars(cal') THEN "fetch" ELSE "fetched"
    /\ UNCHANGED <<input, heap, merged, mergedVal, again, windowStart,
                   windowEnd, slots, weekday0, config, args, filtered, display,
                   server, calendars_info, cliVars>>

\* any(busy_periods_list)
any(lists) == \E i \in 1 .. Len(lists) : lists[i] # <<>>

\* if not any(busy_periods_list): print("No events found. ..."); return
CheckEvents ==
    /\ pc = "fetched"
    /\ IF any(sources)
       THEN /\ pc' = "start"
            /\ output' = output
       ELSE /\ pc' = "done"
            /\ output' = Append(output,
                                Message("No events found. All calendars are free!", 0))
    /\ UNCHANGED <<input, heap, sources, merged, mergedVal, again, windowStart,
                   windowEnd, slots, weekday0, config, args, filtered, display,
                   server, calendars_info, cal, queries, cliVars>>

\* all_slots = organize_slots([...merged_busy_periods...], start_date, end_date, tz)
OrganizeRun ==
    /\ pc = "merged"
    /\ slots' = organize_slots(Deref(heap, merged), windowStart, windowEnd)
    /\ pc' = "organized"
    /\ UNCHANGED <<input, heap, sources, merged, mergedVal, again, windowStart,
                   windowEnd, weekday0, config, args, filtered, display,
                   fetchVars, cliVars>>

NextPipeline ==
    GetCalendarsInfo \/ Fetch \/ CheckEvents \/ Merge \/ OrganizeRun \/ Filter \/ Display

SpecPipeline == InitPipeline /\ [][NextPipeline]_vars

\* ---- get_date_range: from the date options of the command line to the window
\* The value of an option that takes a string is the list of that one string;
\* an option that was not given is None. A string that holds a date is
\* <<day, separator, digits of the year>>, the empty string is <<>>.
Some(v) == <<v>>
EmptyText == <<>>

\* a string is truthy when it is not empty, None is falsy
Truthy(opt) == opt # None /\ opt[1] # EmptyText

\* the days a date string can name, counted from today
MaxDate == 1
DateDays == 0 .. MaxDate

\* "14/07/2025", "14-07-2025", "14.07.2025", and the same with "25" for the year
DateTexts == DateDays \X {"/", "-", "."} \X {2, 4}

\* args.date_range.split(','): "a,b" is <<a, b>>, a string without a comma is <<a>>
RangeTexts == {<<a, b>> : a \in DateTexts, b \in DateTexts} \cup {<<a>> : a \in DateTexts}

\* str.replace('/', '-')
replace(text) ==
    IF text # EmptyText /\ text[2] = "/" THEN <<text[1], "-", text[3]>> ELSE text

\* datetime.strptime(text, "%d-%m-%Y") (digits = 4) or "%d-%m-%y" (digits = 2)
\* raises ValueError unless the text has that shape; otherwise it is 00:00 of the day
Parses(text, digits) == text # EmptyText /\ text[2] = "-" /\ text[3] = digits
strptime(text) == text[1] * TicksPerDay

\* try "%d-%m-%Y", except ValueError: "%d-%m-%y"
ParsesEither(text) == Parses(text, 4) \/ Parses(text, 2)

\* today = datetime.now(tz).replace(hour=0, minute=0, second=0, microsecond=0)
Today == 0

\* timedelta(days=n) in ticks
Days(n) == n * TicksPerDay

\* days_until_monday = (7 - today.weekday())
days_until_monday_mod(wd) == (7 - wd) % 7
days_until_monday(wd) == 7 - wd

\* what get_date_range does: the window it returns, or sys.exit(1), and the
\* number of input() calls it made
Returns(start, end) == [exit |-> FALSE, range |-> <<start, end>>, prompts |-> 0]
Exits(n) == [exit |-> TRUE, range |-> <<>>, prompts |-> n]

\* start 00:00:00 of the first date, end 23:59:59.999999 of the second
Window(first, second) == Returns(At(strptime(first)), DayMax(strptime(second)))

\* elif getattr(args, 'date_range', None): ...
FromDateRange(parts) ==
    IF Len(parts) # 2 THEN Exits(0)
    ELSE LET start_str == replace(parts[1])
             end_str == replace(parts[2])
         IN  IF ParsesEither(start_str) /\ ParsesEither(end_str)
             THEN Window(start_str, end_str)
             ELSE Exits(0)

\* if args.date and isinstance(args.date, str): ...
FromDate(text) ==
    LET date_str == replace(text)
    IN  IF ParsesEither(date_str) THEN Window(date_str, date_str) ELSE Exits(0)

\* else: interactive mode, two input() calls parsed with "%d-%m-%Y" only
Interactive(typed) ==
    IF ~Parses(typed[1], 4) THEN Exits(1)
    ELSE IF ~Parses(typed[2], 4) THEN Exits(2)
         ELSE [Window(typed[1], typed[2]) EXCEPT !.prompts = 2]

get_date_range(a, wd0, typed) ==
    IF a.today \/ ~(a.tomorrow \/ a.next_week \/ a.next_two_weeks
                       \/ Truthy(a.date) \/ Truthy(a.date_range))
    THEN Returns(At(Today), At(Today + Days(1)))
    ELSE IF a.tomorrow
    THEN Returns(At(Today + Days(1)), At(Today + Days(2)))
    ELSE IF a.next_week
    THEN LET next_monday == Today + Days(days_until_monday(WeekdayOf(wd0, Today)))
         IN  Returns(At(next_monday), At(next_monday + Days(7)))
    ELSE IF a.next_two_weeks
    THEN Returns(At(Today), At(Today + Days(14)))
    ELSE IF Truthy(a.date_range)
    THEN FromDateRange(a.date_range[1])
    ELSE IF Truthy(a.date) THEN FromDate(a.date[1])
    ELSE Interactive(typed)

\* the date options are one mutually exclusive group: at most one is given
DateOptions ==
    {NoArgs}
        \cup {[NoArgs EXCEPT !.today = TRUE], [NoArgs EXCEPT !.tomorrow = TRUE],
              [NoArgs EXCEPT !.next_week = TRUE], [NoArgs EXCEPT !.next_two_weeks = TRUE]}
        \cup {[NoArgs EXCEPT !.date = Some(t)] : t \in DateTexts \cup {EmptyText}}
        \cup {[NoArgs EXCEPT !.date_range = Some(r)] : r \in RangeTexts}

InitDates ==
    /\ pc = "dates"
    /\ input = <<>>
    /\ heap = <<>>
    /\ sources = <<>>
    /\ merged = <<>>
    /\ mergedVal = <<>>
    /\ again = <<>>
    /\ windowStart = 0
    /\ windowEnd = 0
    /\ slots = <<>>
    /\ weekday0 \in 0 .. 6
    /\ args \in DateOptions
    /\ config = [work_hours |-> WholeDay, personal_hours |-> WholeDay,
                 minimum_slot_duration |-> DefaultMinimum]
    /\ filtered = <<>>
    /\ display = NotDisplayed
    /\ NotFetching
    /\ entered \in IF args.date # None
                   THEN {<<a, b>> : a \in DateTexts, b \in DateTexts}
                   ELSE {<<>>}
    /\ prompts = 0
    /\ range = <<>>
    /\ NoQuery

\* start_date, end_date = get_date_range(args, default_tz)
GetDateRange ==
    /\ pc = "dates"
    /\ LET r == get_date_range(args, weekday0, entered)
       IN  /\ range' = r.range
           /\ prompts' = r.prompts
           /\ pc' = IF r.exit THEN "exit" ELSE "ranged"
    /\ UNCHANGED <<input, heap, sources, merged, mergedVal, again, windowStart,
                   windowEnd, slots, weekday0, config, args, filtered, display,
                   fetchVars, entered, llm_env, requests, llm_result, argv>>

NextDates == GetDateRange

SpecDates == InitDates /\ [][NextDates]_vars

\* ---- a text query: parse_with_llm, then convert_llm_to_args
\* A JSON value is the text of its literal: true, false, null, a number, or a
\* string between double quotes. A Python value is truthy unless it is False,
\* None, 0 or the empty string.
Falsy == {"false", "null", "0", "\"\""}

\* the keys convert_llm_to_args reads: the two date keys, the two slot keys and
\* the keys of the other options, in the order it reads them
DateKeys == {"date", "date_range"}
SlotKeys == {"free", "busy"}
OptionKeys ==
    <<"work_days", "work_hours", "personal_hours", "all_hours", "convert_tz",
      "split", "event_name", "debug">>

OptionKeySet == {OptionKeys[i] : i \in 1 .. Len(OptionKeys)}

\* the keys whose option takes the value of the key as its argument
ValueKeys == {"date", "date_range", "convert_tz"}

\* at most this many of the other options are present in a result
MaxFlags == 1

\* a falsy and a truthy value for key k
ValueOf(k, truthy) ==
    IF k = "date" THEN (IF truthy THEN "\"14/07/2025\"" ELSE "\"\"")
    ELSE IF k = "date_range" THEN (IF truthy THEN "\"14/07/2025,20/07/2025\"" ELSE "\"\"")
    ELSE IF k = "convert_tz" THEN (IF truthy THEN "\"America/New_York\"" ELSE "null")
    ELSE IF k = "error" THEN "\"no date found\""
    ELSE (IF truthy THEN "true" ELSE "false")

\* The dictionaries an answer can hold: each date and slot key absent (0), falsy
\* (1) or truthy (2), some of the other keys false or true, 'error' or not.
Dicts ==
    {[k \in {x \in DateKeys \cup SlotKeys : main[x] # 0} \cup DOMAIN other
                \cup (IF err THEN {"error"} ELSE {}) |->
         IF k \in DateKeys \cup SlotKeys THEN ValueOf(k, main[k] = 2)
         ELSE IF k = "error" THEN ValueOf(k, TRUE)
         ELSE ValueOf(k, other[k])] :
        main \in [DateKeys \cup SlotKeys -> 0 .. 2],
        other \in UNION {[F -> BOOLEAN] :
                            F \in {G \in SUBSET OptionKeySet : Cardinality(G) <= MaxFlags}},
        err \in BOOLEAN}

\* what json.loads makes of a text: a dict, a list, a number, or JSONDecodeError
JsonObject(d) == [type |-> "object", members |-> d]
JsonArray == [type |-> "array", members |-> <<"1">>]
JsonNumber == [type |-> "number", members |-> <<>>]
NotJson == [type |-> "invalid", members |-> <<>>]

\* response.choices[0].message.content: the text of a JSON value or of something
\* else, alone or between ```json and ```
Contents ==
    [fenced : BOOLEAN,
     text : {JsonObject(d) : d \in Dicts} \cup {JsonArray, JsonNumber, NotJson}]

\* the outcome of one statement: the value it gives, or the exception it raises
Value(v) == [raised |-> "", value |-> v]
Raise(e) == [raised |-> e, value |-> None]

\* litellm.completion(...): raises, or returns a response with this content
completion(env) ==
    IF env.completion.raises THEN Raise("Exception") ELSE Value(env.completion.content)

\* result_text.replace('```json', '').replace('```', '').strip()
Unfenced(content) == [content EXCEPT !.fenced = FALSE]

\* json.loads(result_text)
loads(content) ==
    IF content.fenced \/ content.text.type = "invalid"
    THEN Raise("JSONDecodeError")
    ELSE Value(content.text)

\* 'error' in result
HasError(v) ==
    IF v.type = "object" THEN Value("error" \in DOMAIN v.members)
    ELSE IF v.type = "array" THEN Value(\E i \in 1 .. Len(v.members) : v.members[i] = "error")
    ELSE Raise("TypeError")

\* the inner try of _llm_process: json.loads, the 'error' test, and
\* except json.JSONDecodeError
ParseResponse(content) ==
    LET result == loads(content)
    IN  IF result.raised = "JSONDecodeError" THEN Value(None)
        ELSE LET error == HasError(result.value)
             IN  IF error.raised # "" THEN Raise(error.raised)
                 ELSE IF error.value THEN Value(None)
                 ELSE Value(result.value)

\* _llm_process(text, config, debug): the body of the outer try, and
\* except Exception: return None
llm_process(env) ==
    LET response == completion(env)
    IN  IF response.raised # "" THEN Value(None)
        ELSE LET result_text == IF response.value.fenced
                                THEN Unfenced(response.value)
                                ELSE response.value
                 parsed == ParseResponse(result_text)
             IN  IF parsed.raised # "" THEN Value(None) ELSE parsed

\* d.get(k): the value of the key, None when it is absent
Get(d, k) == IF k \in DOMAIN d THEN d[k] ELSE "null"

\* whether d.get(k) is truthy
IsTrue(d, k) == Get(d, k) \notin Falsy

\* What config.json holds: no such file in either place, a text that is not
\* JSON, or an object whose 'llm' entry is absent, an object or a number.
\* An 'llm' object has 'enabled' absent, false or true.
Absent == [type |-> "absent", members |-> <<>>]
ConfigFile(type, llm) == [type |-> type, llm |-> llm]

ConfigFiles ==
    {ConfigFile("missing", Absent), ConfigFile("invalid", Absent)}
      \cup {ConfigFile("object", llm) :
               llm \in {Absent, JsonNumber}
                         \cup {JsonObject([k \in keys |-> e]) :
                                  keys \in SUBSET {"enabled"}, e \in {"false", "true"}}}

\* load_config(): json.load of the file; only FileNotFoundError is caught, and
\* then {"default_calendar": None} is returned
load_config(file) ==
    IF file.type = "invalid" THEN Raise("JSONDecodeError")
    ELSE IF file.type = "missing" THEN Value(ConfigFile("object", Absent))
    ELSE Value(file)

\* get_llm_config(): config.get('llm', {..., 'enabled': False})
get_llm_config(file) ==
    LET loaded == load_config(file)
    IN  IF loaded.raised # "" THEN loaded
        ELSE IF loaded.value.llm = Absent
             THEN Value(JsonObject([k \in {"enabled"} |-> "false"]))
        ELSE Value(loaded.value.llm)

\* config.get('enabled', False): only a dict has .get
Enabled(llm_config) ==
    IF llm_config.type = "object" THEN Value(IsTrue(llm_config.members, "enabled"))
    ELSE Raise("AttributeError")

\* parse_with_llm(input_text, debug): what it returns or raises, and the
\* number of completion requests it sent
Sent(r, n) == [raised |-> r.raised, value |-> r.value, requests |-> n]

parse_with_llm(env) ==
    IF ~env.litellm THEN Sent(Value(None), 0)
    ELSE LET llm_config == get_llm_config(env.file)
         IN  IF llm_config.raised # "" THEN Sent(Raise(llm_config.raised), 0)
             ELSE LET enabled == Enabled(llm_config.value)
                  IN  IF enabled.raised # "" THEN Sent(Raise(enabled.raised), 0)
                      ELSE IF ~enabled.value THEN Sent(Value(None), 0)
                      ELSE Sent(llm_process(env), 1)

\* ['--date', llm_result['date']], or ['--date-range', ...], or today's date
\* as datetime.now().strftime('%d/%m/%Y') writes it
TodayText == "\"01/01/2024\""

DateOption(d) ==
    IF IsTrue(d, "date") THEN <<"--date", d["date"]>>
    ELSE IF IsTrue(d, "date_range") THEN <<"--date-range", d["date_range"]>>
    ELSE <<"--date", TodayText>>

\* if llm_result.get('free'): ... elif llm_result.get('busy'): ...
SlotOption_both(d) ==
    (IF IsTrue(d, "free") THEN <<"--free">> ELSE <<>>)
        \o (IF IsTrue(d, "busy") THEN <<"--busy">> ELSE <<>>)
SlotOption(d) ==
    IF IsTrue(d, "free") THEN <<"--free">>
    ELSE IF IsTrue(d, "busy") THEN <<"--busy">>
    ELSE <<>>

\* the flag of a key: '--work-days' for 'work_days', ...
FlagOf(k) ==
    CASE k = "date" -> "--date"
      [] k = "date_range" -> "--date-range"
      [] k = "free" -> "--free"
      [] k = "busy" -> "--busy"
      [] k = "work_days" -> "--work-days"
      [] k = "work_hours" -> "--work-hours"
      [] k = "personal_hours" -> "--personal-hours"
      [] k = "all_hours" -> "--all-hours"
      [] k = "convert_tz" -> "--convert-tz"
      [] k = "split" -> "--split"
      [] k = "event_name" -> "--event-name"
      [] k = "debug" -> "--debug"

\* if llm_result.get(k): args.append(flag), or args.extend([flag, value])
Option(d, k) ==
    IF ~IsTrue(d, k) THEN <<>>
    ELSE IF k \in ValueKeys THEN <<FlagOf(k), d[k]>>
    ELSE <<FlagOf(k)>>

RECURSIVE Options(_, _)
Options(d, keys) ==
    IF keys = <<>> THEN <<>> ELSE Option(d, Head(keys)) \o Options(d, Tail(keys))

\* convert_llm_to_args(llm_result)
convert_llm_to_args(d) == DateOption(d) \o SlotOption(d) \o Options(d, OptionKeys)

\* the environment of a text query: litellm importable or not, the config.json
\* that load_config reads, and what the completion call does when it is made
Environments ==
    {[litellm |-> FALSE, file |-> f, completion |-> [raises |-> TRUE, content |-> None]] :
        f \in ConfigFiles}
      \cup [litellm : {TRUE}, file : ConfigFiles,
            completion : {[raises |-> TRUE, content |-> None]}
                            \cup [raises : {FALSE}, content : Contents]]

InitLLM ==
    /\ pc = "query"
    /\ input = <<>>
    /\ heap = <<>>
    /\ sources = <<>>
    /\ merged = <<>>
    /\ mergedVal = <<>>
    /\ again = <<>>
    /\ windowStart = 0
    /\ windowEnd = 0
    /\ slots = <<>>
    /\ weekday0 = 0
    /\ args = NoArgs
    /\ config = [work_hours |-> WholeDay, personal_hours |-> WholeDay,
                 minimum_slot_duration |-> DefaultMinimum]
    /\ filtered = <<>>
    /\ display = NotDisplayed
    /\ NotFetching
    /\ NoDates
    /\ llm_env \in Environments
    /\ requests = 0
    /\ llm_result = None
    /\ argv = <<>>

\* llm_result = parse_with_llm(text_query, debug=debug_mode)
ParseWithLLM ==
    /\ pc = "query"
    /\ LET r == parse_with_llm(llm_env)
       IN  /\ requests' = r.requests
           /\ llm_result' = r.value
           /\ pc' = IF r.raised # "" THEN "raised" ELSE "parsed"
    /\ UNCHANGED <<input, heap, sources, merged, mergedVal, again, windowStart,
                   windowEnd, slots, weekday0, config, args, filtered, display,
                   fetchVars, entered, prompts, range, llm_env, argv>>

\* `if llm_result:` a dict with a key, or a list with an element
NotEmpty(v) == v # None /\ v.members # <<>>

\* new_args = convert_llm_to_args(llm_result); sys.argv = [...] + new_args + ...
\* (a list has no .get: AttributeError)
ConvertArgs ==
    /\ pc = "parsed"
    /\ NotEmpty(llm_result)
    /\ IF llm_result.type = "object"
       THEN /\ argv' = convert_llm_to_args(llm_result.members)
            /\ pc' = "argv"
       ELSE /\ argv' = argv
            /\ pc' = "error"
    /\ UNCHANGED <<input, heap, sources, merged, mergedVal, again, windowStart,
                   windowEnd, slots, weekday0, config, args, filtered, display,
                   fetchVars, entered, prompts, range, llm_env, requests, llm_result>>

\* else: print("[ERROR] Could not parse text query"); sys.exit(1)
RejectQuery ==
    /\ pc = "parsed"
    /\ ~NotEmpty(llm_result)
    /\ pc' = "exit"
    /\ UNCHANGED <<input, heap, sources, merged, mergedVal, again, windowStart,
                   windowEnd, slots, weekday0, config, args, filtered, display,
                   fetchVars, cliVars>>

NextLLM == ParseWithLLM \/ ConvertArgs \/ RejectQuery

SpecLLM == InitLLM /\ [][NextLLM]_vars
\* ================================================================== claims
\* ---- helpers of the claims
N == Len(input)

RECURSIVE TotalDuration(_)
TotalDuration(ss) ==
    IF ss = <<>> THEN 0 ELSE (Head(ss).end - Head(ss).start) + TotalDuration(Tail(ss))

\* the periods of a list with their texts parsed: the instants they denote
Parsed(ps) ==
    [k \in 1 .. Len(ps) |->
        [start |-> parse_datetime(ps[k].start), end |-> parse_datetime(ps[k].end),
         summary |-> ps[k].summary]]

\* every source period lies inside [windowStart, windowEnd)
InsideWindow ==
    \A i \in 1 .. N :
        /\ windowStart <= parse_datetime(input[i].start)
        /\ parse_datetime(input[i].end) <= windowEnd

\* s[i].end = s[i+1].start for every consecutive pair
Contiguous(ss) == \A i \in 1 .. (Len(ss) - 1) : ss[i].end = ss[i + 1].start

\* C1 (coverage): when every source period has start < end and lies inside the
\* window, the slots of organize(merge(sources), windowStart, windowEnd) partition
\* the window: the first starts at windowStart, the last ends at windowEnd, each
\* slot's end is the next one's start, every slot is non-empty and the durations
\* sum to windowEnd - windowStart.
C1_Coverage ==
    (pc = "organized" /\ InsideWindow) =>
        /\ Len(slots) >= 1
        /\ slots[1].start = windowStart
        /\ slots[Len(slots)].end = windowEnd
        /\ Contiguous(slots)
        /\ \A i \in 1 .. Len(slots) : slots[i].start < slots[i].end
        /\ TotalDuration(slots) = windowEnd - windowStart

\* C2: the list merge returns is sorted ascending by start and consecutive
\* periods do not overlap (p.end <= q.start), as intervals of time; no input
\* gives no output.
C2_SortedDisjoint ==
    pc = "merged" =>
        LET m == Parsed(mergedVal)
        IN  /\ \A i \in 1 .. (Len(m) - 1) :
                 /\ m[i].start <= m[i + 1].start
                 /\ m[i].end <= m[i + 1].start
            /\ \A i \in 1 .. Len(m) : m[i].start < m[i].end
            /\ (N = 0 => m = <<>>)
            /\ (N > 0 => Len(m) >= 1)

\* The state of the scan after the first k periods in ascending start order.
ScanAfter(k) ==
    MergeScan([heap |-> input, merged |-> <<>>],
              SubSeq(AllPeriods(input, sources), 1, k))

\* C3 (scan rule): taking the periods in ascending start order, the k-th period
\* opens a new entry exactly when the output is empty or the last entry's end is
\* strictly less than its start; otherwise (start <= last end) the list keeps its
\* length, the last entry keeps its start and its end becomes the larger of the
\* two ends.  [1,3) and [2,4) from two sources merge into [1,4).
C3_ScanRule ==
    pc = "merged" =>
        /\ merged = ScanAfter(N).merged
        /\ \A k \in 1 .. N :
             LET before == ScanAfter(k - 1)
                 after == ScanAfter(k)
                 p == AllPeriods(input, sources)[k]
                 n == Len(before.merged)
                 last == before.merged[n]
             IN  IF n = 0 \/ before.heap[last].end < input[p].start
                 THEN /\ after.merged = Append(before.merged, p)
                      /\ after.heap = before.heap
                 ELSE /\ after.merged = before.merged
                      /\ after.heap[last].start = before.heap[last].start
                      /\ after.heap[last].end =
                           Max(before.heap[last].end, before.heap[p].end)
                      /\ \A i \in 1 .. N : i # last => after.heap[i] = before.heap[i]

C3_Witness ==
    /\ pc = "merged"
    /\ sources = <<(<<1>>), (<<2>>)>>
    /\ input[1].start = isoformat(1, Utc) /\ input[1].end = isoformat(3, Utc)
    /\ input[2].start = isoformat(2, Utc) /\ input[2].end = isoformat(4, Utc)
    /\ Len(mergedVal) = 1
    /\ mergedVal[1].start = isoformat(1, Utc) /\ mergedVal[1].end = isoformat(4, Utc)

\* two source periods touch: the 'end' of one is the 'start' of the other
Touching(i, j) == input[i].end = input[j].start

\* C4 as stated: touching periods are not merged, merge returns them as two
\* separate adjacent entries.
C4_TouchingKeptApart ==
    (pc = "merged" /\ N = 2 /\ Touching(1, 2)) =>
        /\ Len(mergedVal) = 2
        /\ mergedVal[1].end = mergedVal[2].start

\* C4 (amended): touching periods are merged: when one period's end equals
\* another period's start, one entry of the output covers both of them: its
\* start is not after the start of the first and its end not before the end of
\* the second, in the order merge compares them in.
C4_TouchingMerged ==
    pc = "merged" =>
        \A i \in 1 .. N : \A j \in 1 .. N :
            Touching(i, j) =>
                \E k \in 1 .. Len(mergedVal) :
                    /\ mergedVal[k].start <= input[i].start
                    /\ input[j].end <= mergedVal[k].end

C4_Witness ==
    /\ pc = "merged"
    /\ N = 2
    /\ Touching(1, 2)
    /\ Len(mergedVal) = 1
    /\ mergedVal[1].start = input[1].start
    /\ mergedVal[1].end = input[2].end

\* the names of the labelled periods among ids, in that order
RECURSIVE NamesOf(_)
NamesOf(ids) ==
    IF ids = <<>> THEN <<>> ELSE input[Head(ids)].summary \o NamesOf(Tail(ids))

\* the ids, in ascending start order, of the periods starting inside entry e
Absorbed(e) ==
    SelectSeq(AllPeriods(input, sources),
              LAMBDA i : e.start <= input[i].start /\ input[i].start <= e.end)

\* C5 (labels): the label of an output entry lists, in scan order and joined by
\* " / ", the labels of the periods it absorbed: "A / B" when the entry and the
\* incoming period both have one, the incoming label when only it has one, the
\* entry's own when the incoming period has none; an entry that absorbed nothing
\* keeps its own label, or none.
C5_LabelCombination ==
    pc = "merged" =>
        \A k \in 1 .. Len(mergedVal) :
            mergedVal[k].summary = NamesOf(Absorbed(mergedVal[k]))

C5_Witness ==
    /\ pc = "merged"
    /\ N = 2
    /\ Len(mergedVal) = 1
    /\ input[1].start < input[2].start
    /\ mergedVal[1].summary = <<1, 2>>

\* merge([B, A]): the list it returns, as records
SwappedVal ==
    LET r == merge_busy_periods(input, <<sources[2], sources[1]>>)
    IN  Deref(r.heap, r.merged)

\* a labelled period of A and a labelled period of B start at the same instant
LabelledTie ==
    \E i \in 1 .. N : \E j \in 1 .. N :
        /\ i <= Len(sources[1]) /\ j > Len(sources[1])
        /\ input[i].start = input[j].start
        /\ input[i].summary # None /\ input[j].summary # None

\* C6 as stated: merge([A, B]) and merge([B, A]) are identical lists, labels
\* included, also when periods share a start time.
C6_Commutative ==
    pc = "merged" => mergedVal = SwappedVal

\* C6 (amended): merge([A, B]) and merge([B, A]) have the same entries in the same
\* order with the same start and end; the labels are the same too unless a
\* labelled period of A and a labelled period of B share a start time.
C6_CommutativeIntervals ==
    pc = "merged" =>
        /\ Len(mergedVal) = Len(SwappedVal)
        /\ \A k \in 1 .. Len(mergedVal) :
             /\ mergedVal[k].start = SwappedVal[k].start
             /\ mergedVal[k].end = SwappedVal[k].end
        /\ (~LabelledTie => mergedVal = SwappedVal)

C6_Witness ==
    /\ pc = "merged"
    /\ Len(sources[1]) = 1 /\ Len(sources[2]) = 1
    /\ input[1].start = input[2].start
    /\ input[1].end # input[2].end
    /\ input[1].summary # None /\ input[2].summary = None
    /\ mergedVal = SwappedVal

\* C7 as stated: merging the merged list M with itself returns M: the same
\* entries with the same start, end and label.
C7_Idempotent ==
    pc = "remerged" => Deref(heap, again) = mergedVal

\* C7 (amended): merge([M, M]) returns the entries of M with the same start and
\* end; an entry without a label stays without one and the label L of a labelled
\* entry becomes "L / L".
C7_IdempotentIntervals ==
    pc = "remerged" =>
        /\ Len(again) = Len(mergedVal)
        /\ \A k \in 1 .. Len(again) :
             /\ heap[again[k]].start = mergedVal[k].start
             /\ heap[again[k]].end = mergedVal[k].end
             /\ heap[again[k]].summary = mergedVal[k].summary \o mergedVal[k].summary

C7_Witness ==
    /\ pc = "remerged"
    /\ Len(again) = 2
    /\ mergedVal[1].summary = <<1>>
    /\ heap[again[1]].summary = <<1, 1>>
    /\ mergedVal[2].summary = None
    /\ heap[again[2]].summary = None

\* the busy slots of a slot list, as periods
BusyPeriodsOf(ss) ==
    LET busy == SelectSeq(ss, LAMBDA x : x.is_busy)
    IN  [i \in 1 .. Len(busy) |->
            [start |-> busy[i].start, end |-> busy[i].end, summary |-> busy[i].event_name]]

\* C8 (busy conservation): the busy slots organize returns are the merged periods,
\* in the same order, and their durations sum to those of the merged periods.
C8_BusyConservation ==
    pc = "organized" =>
        /\ BusyPeriodsOf(slots) = Parsed(mergedVal)
        /\ TotalDuration(SelectSeq(slots, LAMBDA x : x.is_busy))
              = TotalDuration(Parsed(mergedVal))

C8_Witness ==
    /\ pc = "organized"
    /\ Len(mergedVal) = 2
    /\ Len(SelectSeq(slots, LAMBDA x : x.is_busy)) = 2
    /\ TotalDuration(Parsed(mergedVal)) = 2
    /\ Len(slots) = 3

\* the merged periods lie strictly inside the window
StrictlyInside ==
    \A k \in 1 .. Len(mergedVal) :
        /\ windowStart < parse_datetime(mergedVal[k].start)
        /\ parse_datetime(mergedVal[k].end) < windowEnd

\* each merged period ends strictly before the next one starts
StrictGaps ==
    \A k \in 1 .. (Len(mergedVal) - 1) :
        parse_datetime(mergedVal[k].end) < parse_datetime(mergedVal[k + 1].start)

\* C9 (organize sequence): n merged periods separated by strict gaps and
\* strictly inside the window give
\* 2n+1 slots free, busy, ..., busy, free in chronological order; the i-th busy
\* slot is period i with its label and the free slots have none.  A free slot is
\* only emitted when the cursor is before the period's start, or before
\* windowEnd at the end: no free slot is empty.
C9_OrganizeSequence ==
    pc = "organized" =>
        /\ \A i \in 1 .. Len(slots) :
             ~slots[i].is_busy =>
                 slots[i].start < slots[i].end /\ slots[i].event_name = None
        /\ (StrictGaps /\ StrictlyInside) =>
             /\ Len(slots) = 2 * Len(mergedVal) + 1
             /\ slots[1].start = windowStart
             /\ slots[Len(slots)].end = windowEnd
             /\ Contiguous(slots)
             /\ \A i \in 1 .. Len(slots) : slots[i].is_busy = (i % 2 = 0)
             /\ \A k \in 1 .. Len(mergedVal) :
                  /\ slots[2 * k].start = parse_datetime(mergedVal[k].start)
                  /\ slots[2 * k].end = parse_datetime(mergedVal[k].end)
                  /\ slots[2 * k].event_name = mergedVal[k].summary

C9_Witness ==
    /\ pc = "organized"
    /\ StrictGaps
    /\ StrictlyInside
    /\ Len(mergedVal) = 2
    /\ Len(slots) = 5
    /\ slots[2].event_name # None
    /\ slots[4].event_name = None

\* ---- filter_time_hours
TheSlot == slots[1]
TheHours == SelectedHours(config, args)

\* the instant [t, t+1) is inside the active hours of its day, outside the break,
\* and not on a skipped Saturday or Sunday
ActiveTick(t) ==
    LET tod == t % TicksPerDay
    IN  /\ TheHours.start <= tod /\ tod < TheHours.end
        /\ ~(HasBreak(TheHours) /\ TheHours.break_start <= tod /\ tod < TheHours.break_end)
        /\ args.work_days => ((weekday0 + (t \div TicksPerDay)) % 7) \notin {5, 6}

\* the instants of the slot at which being active can change: its two ends and,
\* on each day it touches, midnight and the configured times of day
ChangePoints ==
    LET tods == {0, TheHours.start, TheHours.end} \cup
                (IF HasBreak(TheHours)
                 THEN {TheHours.break_start, TheHours.break_end} ELSE {})
    IN  {TheSlot.start, TheSlot.end} \cup
        {t \in {d * TicksPerDay + x :
                    d \in DayOf(TheSlot.start) .. DayOf(TheSlot.end), x \in tods} :
            TheSlot.start < t /\ t < TheSlot.end}

\* the ticks of the slot at which a maximal run of active ticks starts
PieceStarts ==
    {t \in ChangePoints :
        /\ t < TheSlot.end
        /\ ActiveTick(t)
        /\ (t = TheSlot.start \/ ~ActiveTick(t - 1))}

\* where the run starting at t ends
PieceEnd(t) ==
    LET ends == {u \in ChangePoints : u > t /\ (u = TheSlot.end \/ ~ActiveTick(u))}
    IN  CHOOSE u \in ends : \A v \in ends : u <= v

\* the non-empty intervals of slot /\ (hours minus break), day by day, in
\* chronological order, carrying the slot's is_busy and label
RECURSIVE PiecesFrom(_)
PiecesFrom(starts) ==
    IF starts = {} THEN <<>>
    ELSE LET t == CHOOSE x \in starts : \A y \in starts : x <= y
         IN  <<TimeSlot(t, PieceEnd(t), TheSlot.is_busy, TheSlot.event_name)>>
             \o PiecesFrom(starts \ {t})

\* the pieces that lie on calendar day d
PiecesOn(d) == {i \in 1 .. Len(filtered) : filtered[i].start \div TicksPerDay = d}

\* C10 (filter result): with filtering enabled and a valid hour window, the pieces
\* emitted for a slot are, in chronological order, exactly the non-empty
\* intervals of slot /\ ([dayStart, dayEnd) minus [breakStart, breakEnd)) on every
\* day the slot touches, Saturdays and Sundays skipped under work_days; a day
\* gives at most two pieces, one when no break is set, and each piece carries
\* the slot's is_busy and label.
C10_FilterResult ==
    (pc = "filtered" /\ ~args.all_hours) =>
        /\ filtered = PiecesFrom(PieceStarts)
        /\ \A d \in 0 .. MaxDays :
             Cardinality(PiecesOn(d)) <= (IF HasBreak(TheHours) THEN 2 ELSE 1)

C10_Witness ==
    /\ pc = "filtered"
    /\ ~args.all_hours
    /\ args.work_days
    /\ weekday0 = 5
    /\ HasBreak(TheHours)
    /\ TheSlot.start \div TicksPerDay = 0
    /\ TheSlot.end \div TicksPerDay = 2
    /\ TheSlot.is_busy
    /\ Len(filtered) = 2
    /\ filtered[1].start \div TicksPerDay = 2
    /\ filtered[1].end < filtered[2].start
    /\ filtered[2].event_name = <<1>>

\* ---- helpers of the claims about hour windows
\* the day of tick t is skipped: --work-days and a Saturday or Sunday
SkippedDay(t) == args.work_days /\ ~is_workday(weekday0, t)

\* the slot has no instant inside the hour window of a day that is not skipped
OutsideActiveHours(slot) ==
    \A d \in DayOf(slot.start) .. DayOf(slot.end) :
        LET t == d * TicksPerDay
        IN  \/ SkippedDay(t)
            \/ Max(slot.start, AtTime(t, TheHours.start))
                  >= Min(slot.end, AtTime(t, TheHours.end))

Filtered == pc \in {"filtered", "displayed"}

\* C11 (window containment): with filtering enabled, every piece filter emits has
\* start < end, starts and ends on one calendar day that is not a skipped
\* weekend day, and lies within [dayStart, dayEnd] of that day; a slot that has
\* no instant inside the active hours of a day that is not skipped yields no piece.
C11_WithinWindow ==
    (Filtered /\ ~args.all_hours) =>
        /\ \A i \in 1 .. Len(filtered) :
              /\ filtered[i].start < filtered[i].end
              /\ DayOf(filtered[i].start) = DayOf(filtered[i].end)
              /\ ~SkippedDay(filtered[i].start)
              /\ AtTime(filtered[i].start, TheHours.start) <= filtered[i].start
              /\ filtered[i].end <= AtTime(filtered[i].start, TheHours.end)
        /\ OutsideActiveHours(TheSlot) => filtered = <<>>

\* a slot from before the window of one day to after the window of the next is
\* clipped at both ends, one piece a day
C11_Witness ==
    /\ pc = "filtered"
    /\ ~args.all_hours
    /\ ~HasBreak(TheHours)
    /\ TheHours.start > 0
    /\ TheSlot.start = 0
    /\ TheSlot.end = 2 * TicksPerDay
    /\ Len(filtered) = 2
    /\ filtered[1].start = TheHours.start
    /\ filtered[2].end = TicksPerDay + TheHours.end

\* the slot lies inside the break of window h on one day:
\* breakStart <= slot.start < slot.end <= breakEnd
InsideBreak(slot, h) ==
    /\ HasBreak(h)
    /\ AtTime(slot.start, h.break_start) <= slot.start
    /\ slot.start < slot.end
    /\ slot.end <= AtTime(slot.start, h.break_end)

\* the slot display_slots measures when --all-hours hands it over unfiltered,
\* and the work-hours window whose break it is measured against
Unfiltered == pc = "displayed" /\ args.all_hours
WorkHours == get_work_hours(config)

\* C12 (break exclusion): a slot lying fully inside the configured break of one
\* day yields zero pieces when filtered, and the active duration of the same
\* slot, unfiltered, is zero.
C12_BreakExclusion ==
    /\ (Filtered /\ ~args.all_hours /\ InsideBreak(TheSlot, TheHours))
          => filtered = <<>>
    /\ (Unfiltered /\ InsideBreak(TheSlot, WorkHours))
          => display.durations = <<timedelta(0)>>

\* a slot strictly shorter than the break around it was measured as zero
C12_Witness ==
    /\ Unfiltered
    /\ InsideBreak(TheSlot, WorkHours)
    /\ TheSlot.end < AtTime(TheSlot.start, WorkHours.break_end)
    /\ DayOf(TheSlot.start) = 1
    /\ TheSlot.is_busy
    /\ display.durations = <<timedelta(0)>>
    /\ display.total_busy = timedelta(0)

\* minutes of [a, b) that fall inside [c, d)
Overlap(a, b, c, d) == Max(0, Min(b, d) - Max(a, c))

\* minutes of the slot inside the break [breakStart, breakEnd) of days d .. its last
RECURSIVE BreakOverlap(_, _, _)
BreakOverlap(slot, h, d) ==
    IF d > DayOf(slot.end) THEN 0
    ELSE Overlap(slot.start, slot.end,
                 d * TicksPerDay + h.break_start, d * TicksPerDay + h.break_end)
         + BreakOverlap(slot, h, d + 1)

\* slot.end - slot.start minus the overlap with each day's break
ActiveMinutes(slot, h) ==
    (slot.end - slot.start)
    - (IF HasBreak(h) THEN BreakOverlap(slot, h, DayOf(slot.start)) ELSE 0)

\* C13 (activeDuration accounting): the active duration of a slot with
\* start < end equals slot.end - slot.start minus its overlap with each day's
\* break, with nothing lost at a day boundary, and slot.end - slot.start when
\* no break is configured.
C13_ActiveDuration ==
    Unfiltered =>
        display.durations = <<timedelta(ActiveMinutes(TheSlot, WorkHours))>>

\* C15 (--all-hours is the identity): with all_hours set, filter returns the
\* input slot sequence unchanged, whatever work_hours, work_days and the
\* configured windows are.
C15_AllHoursUnchanged ==
    (Filtered /\ args.all_hours) => filtered = slots

\* a busy slot over a whole weekend comes back whole although --work-hours and
\* --work-days are set and the work window has a break
C15_Witness ==
    /\ pc = "filtered"
    /\ args.all_hours /\ args.work_hours /\ args.work_days
    /\ weekday0 = 5
    /\ HasBreak(TheHours)
    /\ TheHours.start > 0
    /\ TheSlot.start = 0
    /\ TheSlot.end = 2 * TicksPerDay
    /\ TheSlot.is_busy
    /\ filtered = slots

\* ---- the scenarios
\* scenario 4: the slot [11:30, 13:30) under work hours 09:00-17:00, break 12:00-13:00
Scenario4 ==
    /\ WorkHours = ScenarioHours
    /\ args.work_hours
    /\ args.convert_tz = None
    /\ TheSlot.start = HHMM(11, 30)
    /\ TheSlot.end = HHMM(13, 30)

Scenario4Pieces ==
    <<TimeSlot(HHMM(11, 30), HHMM(12, 0), TheSlot.is_busy, TheSlot.event_name),
      TimeSlot(HHMM(13, 0), HHMM(13, 30), TheSlot.is_busy, TheSlot.event_name)>>

\* C14 as stated (scenario 4): filtering [11:30, 13:30) yields exactly
\* [11:30, 12:00) and [13:00, 13:30), and the active duration of the unfiltered
\* slot is 1h30m.
C14_Scenario4 ==
    /\ (Filtered /\ ~args.all_hours /\ Scenario4) => filtered = Scenario4Pieces
    /\ (Unfiltered /\ Scenario4) => display.durations = <<timedelta(90)>>

\* C14 (scenario 4, amended): filtering [11:30, 13:30) yields exactly
\* [11:30, 12:00) and [13:00, 13:30), and the active duration of the unfiltered
\* slot is 1h: the 2h elapsed minus the whole 1h break.
C14_Scenario4OneHour ==
    /\ (Filtered /\ ~args.all_hours /\ Scenario4) => filtered = Scenario4Pieces
    /\ (Unfiltered /\ Scenario4) => display.durations = <<timedelta(60)>>

\* the unfiltered free slot of scenario 4 was measured and counted as one hour
C14_Witness ==
    /\ Unfiltered
    /\ Scenario4
    /\ ~TheSlot.is_busy
    /\ display.durations = <<timedelta(60)>>
    /\ display.total_free = timedelta(60)

\* the sum of the measured durations of the slots at the indices I
RECURSIVE SumDurations(_)
SumDurations(I) ==
    IF I = {} THEN timedelta(0)
    ELSE LET i == CHOOSE x \in I : TRUE
         IN  Plus(display.durations[i], SumDurations(I \ {i}))

InList(slot, list) == \E j \in 1 .. Len(list) : list[j] = slot
Length(slot) == slot.end - slot.start

\* the slots handed to display_slots: the busy ones, and the free ones of at
\* least the minimum length
BusyShown == {i \in 1 .. Len(filtered) : filtered[i].is_busy}
FreeLongEnough ==
    {i \in 1 .. Len(filtered) :
        ~filtered[i].is_busy /\ Length(filtered[i]) >= minimum_slot_duration(config)}

\* C16 (minimum free duration): a free slot shorter than the minimum is in
\* neither the displayed free slots nor the free total, a free slot of at least
\* the minimum is in both, and every busy slot is displayed and counted in the
\* busy total.
C16_MinimumDuration ==
    (pc = "displayed" /\ args.convert_tz = None) =>
        /\ \A i \in 1 .. Len(filtered) :
              IF filtered[i].is_busy
              THEN args.show_busy => InList(filtered[i], display.busy_slots)
              ELSE IF i \in FreeLongEnough
                   THEN args.show_free => InList(filtered[i], display.free_slots)
                   ELSE ~InList(filtered[i], display.free_slots)
        /\ display.total_free = SumDurations(FreeLongEnough)
        /\ display.total_busy = SumDurations(BusyShown)

\* ---- helpers of the claims about find_free_slots
\* the fetch loop of find_free_slots has asked every calendar
FetchLoopDone == pc \notin {"info", "fetch"} /\ calendars_info # {}

\* the fetch of calendar c returned, and returned busy periods
Returned(c) == server[c].fetch
ReturnedPeriods(c) == server[c].fetch /\ server[c].busy # <<>>

\* the single free slot spanning [windowStart, windowEnd)
WholeWindowFree == <<TimeSlot(windowStart, windowEnd, FALSE, None)>>

\* C17 (EmptyResult): when every calendar answers and none returns a busy
\* period, the run ends with the single free slot [windowStart, windowEnd)
\* organized, passed through hour-window filtering and handed to display_slots.
C17_EmptyResult ==
    (FetchLoopDone /\ pc = "done" /\ \A c \in Calendars : Returned(c) /\ ~ReturnedPeriods(c))
        => /\ slots = WholeWindowFree
           /\ filtered = filter_time_hours(slots, config, args, weekday0)
           /\ display = display_slots(filtered, args.convert_tz, minimum_slot_duration(config), args, config)

\* how many times calendar c was asked for its busy periods
Asked(c) == Cardinality({i \in 1 .. Len(queries) : queries[i] = c})

\* period i is inside a busy slot of the organized sequence
OrganizedBusy(i) ==
    \E j \in 1 .. Len(slots) :
        /\ slots[j].is_busy
        /\ slots[j].start <= parse_datetime(input[i].start)
        /\ parse_datetime(input[i].end) <= slots[j].end

\* C18 (a fetch failure is not fatal): when the fetch of a calendar fails, a
\* warning is printed for it, it contributes no period, it is asked only once,
\* and the periods of every other calendar whose fetch returned are in
\* busy_periods_list, the run does not stop before display_slots, and they are
\* busy in the organized slots.
C18_FetchFailureNonFatal ==
    FetchLoopDone =>
        \A c \in Calendars : ~Returned(c) =>
            /\ InList(FetchWarning(c), output)
            /\ Asked(c) = 1
            /\ \A d \in Calendars \ {c} : ReturnedPeriods(d) =>
                  /\ InList(server[d].busy, sources)
                  /\ pc # "done"
                  /\ pc = "displayed" =>
                        \A j \in 1 .. Len(server[d].busy) : OrganizedBusy(server[d].busy[j])

\* C20 (zero-length busy input is rejected): a busy period with start = end
\* never reaches merge or organize, and no slot with start >= end is produced.
C20_ZeroLengthRejected ==
    /\ pc \in {"merged", "organized", "filtered", "displayed"} =>
          \A i \in 1 .. Len(sources) : \A j \in 1 .. Len(sources[i]) :
              parse_datetime(input[sources[i][j]].start)
                  < parse_datetime(input[sources[i][j]].end)
    /\ \A k \in 1 .. Len(slots) : slots[k].start < slots[k].end
    /\ \A k \in 1 .. Len(filtered) : filtered[k].start < filtered[k].end

\* C19 (InvalidWindow rejection): an hour window with dayStart >= dayEnd, or
\* with a break that has breakStart >= breakEnd or lies outside
\* [dayStart, dayEnd], is rejected when the configuration is loaded, so
\* filter_time_hours never filters with one and get_adjusted_duration never
\* measures a slot against the break of one.
C19_InvalidWindowRejected ==
    /\ (Filtered /\ ~args.all_hours) => ValidWindow(TheHours)
    /\ (pc = "displayed" /\ display.durations # <<>>) => ValidWindow(WorkHours)

\* ---- merge_busy_periods and its inputs
\* C21 (inputs immutable): a call to merge leaves every input busy-period record
\* of every source as it was (same start, end and label), and merging the same
\* source lists a second time gives the same result as the first call.
C21_InputsImmutable ==
    /\ pc \in {"merged", "merged_again"} => heap = input
    /\ pc = "merged_again" => Deref(heap, again) = mergedVal

\* an instant t is covered by a period [start, end)
Covers(p, t) == parse_datetime(p.start) <= t /\ t < parse_datetime(p.end)

\* C26 (busy set preserved): for sources with start < end, an instant is covered
\* by some period of merge's output if and only if it is covered by some input
\* period of some source.
C26_BusySetPreserved ==
    pc = "merged" =>
        \A t \in WindowTimes :
            (\E i \in 1 .. Len(mergedVal) : Covers(mergedVal[i], t))
                <=> (\E i \in 1 .. N : Covers(input[i], t))

\* ---- the order of the steps of find_free_slots
\* the run is past the fetch loop: at the check of busy_periods_list or later
PastFetchLoop == pc \notin {"info", "fetch"}

\* C25 (fetch before merge): merge is invoked only after the busy-period fetch
\* of every calendar has returned or failed, and no calendar is asked once the
\* fetch loop is left, so none is asked after merging has started.
C25_FetchBeforeMerge ==
    [][/\ (pc = "start" /\ pc' = "merged") =>
              \A c \in Calendars : Asked(c) = 1
       /\ PastFetchLoop => (queries' = queries /\ sources' = sources)]_vars

\* a merge of a run where one calendar's fetch failed and the other returned
C25_Witness ==
    /\ pc = "merged"
    /\ ~server[1].fetch
    /\ ReturnedPeriods(2)
    /\ queries = <<1, 2>>
    /\ mergedVal # <<>>

\* ---- the debug flag of find_free_slots
\* busy_periods_list of the run with the same calendar responses and --debug off:
\* the non-empty answer of every calendar whose fetch returned, in calendar order
CollectedWithoutDebug ==
    (IF ReturnedPeriods(1) THEN <<server[1].busy>> ELSE <<>>)
        \o (IF ReturnedPeriods(2) THEN <<server[2].busy>> ELSE <<>>)

\* the slot sequence that run hands to display_slots
PresentedWithoutDebug ==
    LET m == merge_busy_periods(input, CollectedWithoutDebug)
    IN  filter_time_hours(organize_slots(Deref(m.heap, m.merged), windowStart, windowEnd),
                          config, args, weekday0)

\* C27 (debug is observation-only): for the same calendar responses, the busy
\* periods collected and the slot sequence passed to display_slots are the same
\* with --debug on as with --debug off.
C27_DebugObservationOnly ==
    /\ FetchLoopDone => sources = CollectedWithoutDebug
    /\ (FetchLoopDone /\ any(CollectedWithoutDebug)) =>
           (pc = "displayed" => filtered = PresentedWithoutDebug)
    /\ (FetchLoopDone /\ any(CollectedWithoutDebug)) => pc # "done"

\* ---- the totals of display_slots
\* C29 (totals match what is displayed): when hour-window filtering is active
\* (no --all-hours, no display zone), under the work profile and under the
\* personal profile the reported free total is the sum of the lengths of the
\* displayed free slots and the reported busy total is the sum of the lengths of
\* the displayed busy slots.
C29_TotalsMatchDisplayed ==
    (pc = "displayed" /\ ~args.all_hours /\ args.convert_tz = None) =>
        /\ args.show_free =>
               display.total_free = timedelta(TotalDuration(display.free_slots))
        /\ args.show_busy =>
               display.total_busy = timedelta(TotalDuration(display.busy_slots))

\* ---- the display zone of display_slots
\* what display_slots computes from the same slots without a target zone
WithoutZone ==
    display_slots(filtered, None, minimum_slot_duration(config), args, config)

\* the instants of the displayed free slots, read back in the zone of the input
FreeInstants(d, tz) ==
    {[start |-> d.free_slots[i].start - tz[1], end |-> d.free_slots[i].end - tz[1]] :
        i \in 1 .. Len(d.free_slots)}

\* C28 (display-zone independence): for any slot sequence, the total free
\* duration, the total busy duration and the set of free slots that pass the
\* minimum-duration check are the same with a target display zone as with none.
C28_ZoneIndependence ==
    (pc = "displayed" /\ args.convert_tz # None) =>
        /\ display.total_free = WithoutZone.total_free
        /\ display.total_busy = WithoutZone.total_busy
        /\ FreeInstants(display, args.convert_tz) = FreeInstants(WithoutZone, <<0>>)

\* ---- get_date_range
\* C30 (--next-week): for every weekday of today the window starts at 00:00 of
\* a Monday strictly after today and at most 7 days ahead (7 days ahead when
\* today is a Monday), and ends exactly 7 days after its start.
C30_NextWeek ==
    (pc = "ranged" /\ args.next_week) =>
        LET start == range[1]
            end == range[2]
        IN  /\ start.us = 0
            /\ start.min % TicksPerDay = 0
            /\ WeekdayOf(weekday0, start.min) = 0
            /\ Today < start.min
            /\ start.min <= Today + Days(7)
            /\ WeekdayOf(weekday0, Today) = 0 => start.min = Today + Days(7)
            /\ Minus(end, start) = timedelta(Days(7))

\* --next-week on a Monday
C30_Witness ==
    /\ pc = "ranged"
    /\ args.next_week
    /\ weekday0 = 0
    /\ range = <<At(Days(7)), At(Days(14))>>

\* C23 (--date without a value): with args.date = '' get_date_range prompts for
\* a start and an end date and returns the window built from the entered dates.
C23_InteractiveDate ==
    (pc # "dates" /\ args.date = Some(EmptyText)) =>
        /\ prompts >= 1
        /\ (Parses(entered[1], 4) /\ Parses(entered[2], 4)) =>
               /\ pc = "ranged"
               /\ prompts = 2
               /\ range = <<At(strptime(entered[1])), DayMax(strptime(entered[2]))>>

\* ---- convert_llm_to_args
\* the result dictionary the argument list was built from
TheDict == llm_result.members

\* the positions of argv that hold one of the flags
PositionsOf(flags) == {i \in 1 .. Len(argv) : argv[i] \in flags}

\* C22 (mutual-exclusion groups): for every result dictionary the argument list
\* starts with exactly one date option (--date <value> when 'date' is truthy,
\* else --date-range <value> when 'date_range' is truthy, else --date <today>),
\* holds at most one of --free/--busy ('free' wins when both are truthy), and
\* holds no flag for a key whose value is false or absent.
C22_ExclusionGroups ==
    pc = "argv" =>
        /\ Len(argv) >= 2
        /\ <<argv[1], argv[2]>> =
               IF IsTrue(TheDict, "date") THEN <<"--date", TheDict["date"]>>
               ELSE IF IsTrue(TheDict, "date_range")
                    THEN <<"--date-range", TheDict["date_range"]>>
                    ELSE <<"--date", TodayText>>
        /\ PositionsOf({"--date", "--date-range"}) = {1}
        /\ Cardinality(PositionsOf({"--free", "--busy"})) <= 1
        /\ IsTrue(TheDict, "free") => PositionsOf({"--busy"}) = {}
        /\ \A k \in SlotKeys \cup OptionKeySet :
               ~IsTrue(TheDict, k) => PositionsOf({FlagOf(k)}) = {}

\* both date keys and both slot keys truthy
C22_Witness ==
    /\ pc = "argv"
    /\ IsTrue(TheDict, "date") /\ IsTrue(TheDict, "date_range")
    /\ IsTrue(TheDict, "free") /\ IsTrue(TheDict, "busy")
    /\ argv = <<"--date", TheDict["date"], "--free">>

\* ---- parse_with_llm
\* the configuration loads and its 'llm' entry is a dict with 'enabled' true
LLMEnabled ==
    /\ get_llm_config(llm_env.file).raised = ""
    /\ Enabled(get_llm_config(llm_env.file).value) = Value(TRUE)

\* the configuration loads and the LLM is disabled in it
LLMDisabled ==
    /\ get_llm_config(llm_env.file).raised = ""
    /\ Enabled(get_llm_config(llm_env.file).value) = Value(FALSE)

Completes == llm_env.litellm /\ LLMEnabled /\ ~llm_env.completion.raises
Answer == llm_env.completion.content.text

\* C24 (failures give None): parse_with_llm never raises; it returns None when
\* litellm is unavailable, when the LLM is disabled, when the completion call
\* raises, when the response is not valid JSON and when the JSON holds an
\* 'error' key; in the first two cases no completion request is sent; only a
\* valid JSON response without an 'error' key is returned, as parsed.
C24_FailuresGiveNone ==
    pc # "query" =>
        /\ pc # "raised"
        /\ (~llm_env.litellm \/ LLMDisabled) => (llm_result = None /\ requests = 0)
        /\ (llm_env.litellm /\ LLMEnabled /\ llm_env.completion.raises) =>
               llm_result = None
        /\ (Completes /\ Answer.type = "invalid") => llm_result = None
        /\ (Completes /\ Answer.type = "object" /\ "error" \in DOMAIN Answer.members) =>
               llm_result = None
        /\ llm_result # None =>
               /\ Completes
               /\ Answer.type \in {"object", "array"}
               /\ Answer.type = "object" => "error" \notin DOMAIN Answer.members
               /\ llm_result = Answer
               /\ requests = 1

====
